---- MODULE Spec2Model ----
(***************************************************************************)
(* Model of the metrics evaluation engine (training/calculate_metrics.py)  *)
(* and of the ensemble voter (inference/re_ensemble_inference.py).         *)
(*                                                                         *)
(* The predictions are read once, front to back, by every evaluation       *)
(* routine; the model therefore supplies them document by document and     *)
(* item by item (NextDocument, NextItem), one loop iteration per step.     *)
(*                                                                         *)
(* Numbers: the metrics are floats in the source.  They are modelled in    *)
(* fixed point, in units of 1/Scale, with the smoothing term 1e-10 below   *)
(* the resolution: x / (c + 1e-10) is x / c for a count c >= 1 and 0 for   *)
(* x = 0, c = 0.                                                           *)
(***************************************************************************)
EXTENDS Integers, Sequences, FiniteSets, TLC

\* ------------------------------------------------------------- bounds
\* gold items per ground-truth document
MaxGold == 1
\* predicted items iterated in one run, over all documents
MaxItems == 2
\* fixed-point resolution of the metric values
Scale == 1000
\* prediction sets handed to the ensemble voter
MaxModels == 4
\* relations in all the prediction sets of one ensemble run
MaxVotes == 2

\* ------------------------------------------------- raw (JSON) values
\* A JSON scalar is <<"int", n>> or <<"str", s>>.
I(n) == <<"int", n>>
S(s) == <<"str", s>>

NumStr == <<"0", "1", "2", "3", "4", "5", "6", "7", "8", "9">>

\* Python's int(x) on a JSON int or a decimal string.
PyInt(raw) ==
  IF raw[1] = "int" THEN raw[2]
  ELSE (CHOOSE n \in 0..9 : NumStr[n + 1] = raw[2])

\* Python's str(x) on a JSON string or a small JSON int.
PyStr(raw) ==
  IF raw[1] = "str" THEN raw[2] ELSE NumStr[raw[2] + 1]

\* x in list
InList(x, list) == \E i \in 1..Len(list) : list[i] = x

\* ------------------------------------------------------ vocabularies
\* load_entity_labels(): an ordered sequence whose first entry is reserved.
load_entity_labels == <<"O", "Gene", "Drug">>
\* load_relation_labels()[0]: an ordered sequence whose first entry is reserved.
load_relation_labels == <<"NoRel", "treats", "causes">>

\* Mutant of Slice1: the whole sequence, the first entry included.
Slice1Whole(seq) == seq

\* seq[1:]
Slice1(seq) == IF seq = <<>> THEN <<>> ELSE Tail(seq)

\* ------------------------------------------------------------- items
E(st, en, loc, sp, lb) ==
  [start_idx |-> st, end_idx |-> en, location |-> S(loc), text_span |-> S(sp),
   label |-> S(lb)]

R(sts, sl, p, ots, ol) ==
  [subject_text_span |-> S(sts), subject_label |-> S(sl), predicate |-> S(p),
   object_text_span |-> S(ots), object_label |-> S(ol)]

PMIDs == {"D1", "D2"}

GoldEntities ==
  { E(I(0), I(5), "title", "BRCA1", "Gene"),
    E(I(0), I(5), "title", "aspirin", "Drug"),
    E(I(0), I(5), "title", "the", "O") }

PredEntities ==
  GoldEntities \cup
  { E(S("0"), I(5), "title", "BRCA1", "Gene"),
    E(I(0), I(5), "title", "TP53", "Gene"),
    E(I(0), I(5), "title", "BRCA1", "XYZ"),
    [start_idx |-> I(0), end_idx |-> I(5), location |-> S("title"),
     text_span |-> S("BRCA1")] }

GoldRelations ==
  { R("aspirin", "Drug", "treats", "BRCA1", "Gene"),
    R("BRCA1", "Gene", "causes", "aspirin", "Drug"),
    R("the", "O", "treats", "BRCA1", "Gene") }

PredRelations ==
  GoldRelations \cup
  { R("ibuprofen", "Drug", "treats", "BRCA1", "Gene"),
    R("aspirin", "Drug", "treats", "TP53", "Gene"),
    R("aspirin", "Drug", "NoRel", "BRCA1", "Gene"),
    R("aspirin", "XYZ", "treats", "BRCA1", "Gene"),
    R("aspirin", "Drug", "treats", "BRCA1", "XYZ"),
    R("aspirin", "Drug", "XYZ", "BRCA1", "Gene"),
    [subject_text_span |-> S("aspirin"), subject_label |-> S("Drug"),
     predicate |-> S("treats"), object_text_span |-> S("BRCA1")] }

Tasks == {"NER", "6.2.1", "6.2.2", "6.2.3"}

\* The evaluation routine compute_metrics selects for a config; "none" when
\* the subtask is not recognised.
TaskOf(cfg) ==
  IF cfg.model_type = "re"
  THEN (IF cfg.subtask \in {"6.2.1", "6.2.2", "6.2.3"} THEN cfg.subtask ELSE "none")
  ELSE "NER"

GoldItems(task) == IF task = "NER" THEN GoldEntities ELSE GoldRelations
PredItems(task) == IF task = "NER" THEN PredEntities ELSE PredRelations

\* Sequences over S of length at most n
SeqUpTo(U, n) == UNION { [1..k -> U] : k \in 0..n }

\* ------------------------------------------- the four task variants
\* The list field of an article that the routine of `task` reads.
FieldName(task) ==
  CASE task = "NER" -> "entities"
    [] task = "6.2.1" -> "binary_tag_based_relations"
    [] task = "6.2.2" -> "ternary_tag_based_relations"
    [] OTHER -> "ternary_mention_based_relations"

\* The fields of an item that the routine of `task` reads.
RequiredFields(task) ==
  CASE task = "NER" -> {"start_idx", "end_idx", "location", "text_span", "label"}
    [] task = "6.2.1" -> {"subject_label", "object_label"}
    [] task = "6.2.2" -> {"subject_label", "predicate", "object_label"}
    [] OTHER -> {"subject_text_span", "subject_label", "predicate",
                 "object_text_span", "object_label"}

\* The counting key (`label`) of an item.
CountingKey(task, it) ==
  CASE task = "NER" -> <<PyStr(it.label)>>
    [] task = "6.2.1" -> <<PyStr(it.subject_label), PyStr(it.object_label)>>
    [] OTHER -> <<PyStr(it.subject_label), PyStr(it.predicate), PyStr(it.object_label)>>

\* Mutant of MatchTuple: every variant matches on the label fields alone.
MatchTupleLabelOnly(task, it) ==
  CASE task = "NER" -> <<PyStr(it.label)>>
    [] OTHER -> CountingKey(task, it)

\* The tuple stored in the ground-truth index and looked up for a true
\* positive: `entry` for NER and 6.2.3, `label` for 6.2.1 and 6.2.2.

MatchTuple(task, it) ==
  CASE task = "NER" ->
         <<PyInt(it.start_idx), PyInt(it.end_idx), PyStr(it.location),
           PyStr(it.text_span), PyStr(it.label)>>
    [] task = "6.2.3" ->
         <<PyStr(it.subject_text_span), PyStr(it.subject_label), PyStr(it.predicate),
           PyStr(it.object_text_span), PyStr(it.object_label)>>
    [] OTHER -> CountingKey(task, it)

\* The legal vocabularies: the loaded sequences without their first entry.
entity_labels == Slice1(load_entity_labels)
relation_labels == Slice1(load_relation_labels)

\* Mutant of Illegal: only the first label field is checked.
IllegalFirstFieldOnly(task, it) ==
  IF task = "NER"
  THEN (IF ~InList(PyStr(it.label), entity_labels)
        THEN <<"Illegal label", PyStr(it.label)>> ELSE <<>>)
  ELSE IF ~InList(PyStr(it.subject_label), entity_labels)
  THEN <<"Illegal subject entity label", PyStr(it.subject_label)>>
  ELSE <<>>

\* The first failed legality check of a predicted item, in the order of the
\* source, as <<message, value>>; <<>> when the item passes.
Illegal(task, it) ==
  IF task = "NER"
  THEN (IF ~InList(PyStr(it.label), entity_labels)
        THEN <<"Illegal label", PyStr(it.label)>> ELSE <<>>)
  ELSE IF ~InList(PyStr(it.subject_label), entity_labels)
  THEN <<"Illegal subject entity label", PyStr(it.subject_label)>>
  ELSE IF ~InList(PyStr(it.object_label), entity_labels)
  THEN <<"Illegal object entity label", PyStr(it.object_label)>>
  ELSE IF task # "6.2.1" /\ ~InList(PyStr(it.predicate), relation_labels)
  THEN <<"Illegal predicate", PyStr(it.predicate)>>
  ELSE <<>>

\* ------------------------------------------------- ground-truth pass
\* ground_truth is the loaded dev.json: a sequence (a dict in insertion
\* order) of [pmid, items], items being the list under FieldName(task).
GoldPmids(gt) == { gt[i].pmid : i \in 1..Len(gt) }

\* ground_truth_NER / ground_truth_*_RE: pmid -> list of gold tuples
GroundTruthIndex(task, gt) ==
  [p \in GoldPmids(gt) |->
     LET d == CHOOSE i \in 1..Len(gt) : gt[i].pmid = p
     IN [j \in 1..Len(gt[d].items) |-> MatchTuple(task, gt[d].items[j])]]

\* The counting keys of all gold items, in the order the pass meets them.
RECURSIVE GoldLabels(_, _)
GoldLabels(task, gt) ==
  IF gt = <<>> THEN <<>>
  ELSE [j \in 1..Len(Head(gt).items) |-> CountingKey(task, Head(gt).items[j])]
       \o GoldLabels(task, Tail(gt))

\* list(d.keys()) of a dict filled in the order of `seq`
RECURSIVE KeysInOrder(_)
KeysInOrder(seq) ==
  IF seq = <<>> THEN <<>>
  ELSE LET init == KeysInOrder(SubSeq(seq, 1, Len(seq) - 1))
           last == seq[Len(seq)]
       IN IF InList(last, init) THEN init ELSE Append(init, last)

\* count_annotated_*_per_label
CountAnnotated(task, gt) ==
  LET ls == GoldLabels(task, gt)
  IN [l \in { ls[i] : i \in 1..Len(ls) } |->
        Cardinality({ i \in 1..Len(ls) : ls[i] = l })]

\* Mutant of ZeroCounts: the counter starts empty, not seeded.
ZeroCountsUnseeded(annotated) == [l \in {} |-> 0]

\* {label: 0 for label in list(count_annotated.keys())}
ZeroCounts(annotated) == [l \in DOMAIN annotated |-> 0]

\* ------------------------------------------------- accumulation pass
Raise(type, what, p, value) ==
  [kind |-> "raise", type |-> type, what |-> what, pmid |-> p, value |-> value]

NoOutcome == [kind |-> "none"]

\* Mutant of IncPredicted: a key is counted once, however often predicted.
IncPredictedOnce(cp, label) ==
  IF label \in DOMAIN cp /\ cp[label] = 0 THEN [cp EXCEPT ![label] = @ + 1] ELSE cp

\* Mutant of IncPredicted: a key that is not seeded is added (a defaultdict).
IncPredictedDefault(cp, label) ==
  IF label \in DOMAIN cp THEN [cp EXCEPT ![label] = @ + 1]
  ELSE [l \in DOMAIN cp \cup {label} |-> IF l = label THEN 1 ELSE cp[l]]

\* if label in count_predicted: count_predicted[label] += 1
IncPredicted(cp, label) ==
  IF label \in DOMAIN cp THEN [cp EXCEPT ![label] = @ + 1] ELSE cp

\* Mutant of ProcessItem: a document absent from the index has no gold items
\* (index.get(p, [])).
ProcessItemLenient(task, index, cp, ctp, p, it) ==
  IF ~(RequiredFields(task) \subseteq DOMAIN it)
  THEN [out |-> Raise("KeyError", "missing item field", p, ""), cp |-> cp, ctp |-> ctp]
  ELSE IF Illegal(task, it) # <<>>
  THEN [out |-> Raise("NameError", Illegal(task, it)[1], p, Illegal(task, it)[2]),
        cp |-> cp, ctp |-> ctp]
  ELSE
    LET label == CountingKey(task, it)
        entry == MatchTuple(task, it)
        cp1 == IncPredicted(cp, label)
    IN IF p \notin DOMAIN index \/ ~InList(entry, index[p])
       THEN [out |-> NoOutcome, cp |-> cp1, ctp |-> ctp]
       ELSE [out |-> NoOutcome, cp |-> cp1, ctp |-> [ctp EXCEPT ![label] = @ + 1]]

\* Mutant of ProcessItem: a gold tuple is paired with at most one predicted
\* item: no more true positives of a label than the document's gold list holds
\* copies of the tuple.
ProcessItemPaired(task, index, cp, ctp, p, it) ==
  IF ~(RequiredFields(task) \subseteq DOMAIN it)
  THEN [out |-> Raise("KeyError", "missing item field", p, ""), cp |-> cp, ctp |-> ctp]
  ELSE IF Illegal(task, it) # <<>>
  THEN [out |-> Raise("NameError", Illegal(task, it)[1], p, Illegal(task, it)[2]),
        cp |-> cp, ctp |-> ctp]
  ELSE
    LET label == CountingKey(task, it)
        entry == MatchTuple(task, it)
        cp1 == IncPredicted(cp, label)
    IN IF p \notin DOMAIN index
       THEN [out |-> Raise("KeyError", "missing document", p, p), cp |-> cp1, ctp |-> ctp]
       ELSE IF ~InList(entry, index[p])
       THEN [out |-> NoOutcome, cp |-> cp1, ctp |-> ctp]
       ELSE IF label \notin DOMAIN ctp
       THEN [out |-> Raise("KeyError", "missing counter", p, ""), cp |-> cp1, ctp |-> ctp]
       ELSE [out |-> NoOutcome, cp |-> cp1,
             ctp |-> IF ctp[label] < Cardinality({ j \in 1..Len(index[p]) :
                                                    index[p][j] = entry })
                     THEN [ctp EXCEPT ![label] = @ + 1] ELSE ctp]

\* Mutant of ProcessItem: a true positive is counted only for the first
\* predicted item of its label.
ProcessItemFirstOnly(task, index, cp, ctp, p, it) ==
  IF ~(RequiredFields(task) \subseteq DOMAIN it)
  THEN [out |-> Raise("KeyError", "missing item field", p, ""), cp |-> cp, ctp |-> ctp]
  ELSE IF Illegal(task, it) # <<>>
  THEN [out |-> Raise("NameError", Illegal(task, it)[1], p, Illegal(task, it)[2]),
        cp |-> cp, ctp |-> ctp]
  ELSE
    LET label == CountingKey(task, it)
        entry == MatchTuple(task, it)
        cp1 == IncPredicted(cp, label)
    IN IF p \notin DOMAIN index
       THEN [out |-> Raise("KeyError", "missing document", p, p), cp |-> cp1, ctp |-> ctp]
       ELSE IF ~InList(entry, index[p])
       THEN [out |-> NoOutcome, cp |-> cp1, ctp |-> ctp]
       ELSE IF label \notin DOMAIN ctp
       THEN [out |-> Raise("KeyError", "missing counter", p, ""), cp |-> cp1, ctp |-> ctp]
       ELSE [out |-> NoOutcome, cp |-> cp1,
             ctp |-> IF cp[label] = 0 THEN [ctp EXCEPT ![label] = @ + 1] ELSE ctp]

\* One iteration of the inner loop: the item `it` of document p.  The result
\* holds the counters as the iteration leaves them and the exception raised,
\* if any.
ProcessItem(task, index, cp, ctp, p, it) ==
  IF ~(RequiredFields(task) \subseteq DOMAIN it)
  THEN [out |-> Raise("KeyError", "missing item field", p, ""), cp |-> cp, ctp |-> ctp]
  ELSE IF Illegal(task, it) # <<>>
  THEN [out |-> Raise("NameError", Illegal(task, it)[1], p, Illegal(task, it)[2]),
        cp |-> cp, ctp |-> ctp]
  ELSE
    LET label == CountingKey(task, it)
        entry == MatchTuple(task, it)
        cp1 == IncPredicted(cp, label)
    IN IF p \notin DOMAIN index
       THEN [out |-> Raise("KeyError", "missing document", p, p), cp |-> cp1, ctp |-> ctp]
       ELSE IF ~InList(entry, index[p])
       THEN [out |-> NoOutcome, cp |-> cp1, ctp |-> ctp]
       ELSE IF label \notin DOMAIN ctp
       THEN [out |-> Raise("KeyError", "missing counter", p, ""), cp |-> cp1, ctp |-> ctp]
       ELSE [out |-> NoOutcome, cp |-> cp1, ctp |-> [ctp EXCEPT ![label] = @ + 1]]

\* The inner loop over the list of document p, from the counters and outcome
\* in acc; an exception ends it.
RECURSIVE AccumulateItems(_, _, _, _, _)
AccumulateItems(task, index, acc, p, items) ==
  IF acc.out.kind = "raise" \/ items = <<>> THEN acc
  ELSE AccumulateItems(task, index,
                       ProcessItem(task, index, acc.cp, acc.ctp, p, Head(items)),
                       p, Tail(items))

\* The outer loop over a predictions dict, in its insertion order.
RECURSIVE AccumulateDocuments(_, _, _, _)
AccumulateDocuments(task, index, acc, preds) ==
  IF acc.out.kind = "raise" \/ preds = <<>> THEN acc
  ELSE AccumulateDocuments(task, index,
                           AccumulateItems(task, index, acc, Head(preds).pmid,
                                           Head(preds).items),
                           Tail(preds))

\* ------------------------------------------------------- aggregation
\* sum(counts[label] for label in list(count_annotated.keys()))
RECURSIVE SumCounts(_, _)
SumCounts(counts, keys) ==
  IF keys = <<>> THEN 0 ELSE counts[Head(keys)] + SumCounts(counts, Tail(keys))

\* a / (b + 1e-10) for counts a and b, in units of 1/Scale.  For b = 0 and
\* a > 0 the quotient is a * 1e10, beyond every metric value; it is kept
\* apart from them as a * Scale * Scale.
SmoothDiv(a, b) ==
  IF b = 0 THEN a * Scale * Scale ELSE (a * Scale) \div b

\* 2 * ((p * r) / (p + r + 1e-10)) for fixed-point p and r
F1(p, r) == IF p + r = 0 THEN 0 ELSE 2 * ((p * r) \div (p + r))

\* Mutant of MacroLoop: a label that was never predicted is skipped.
RECURSIVE MacroLoopPredictedOnly(_, _, _, _)
MacroLoopPredictedOnly(keys, ann, cp, ctp) ==
  IF keys = <<>> THEN [precision |-> 0, recall |-> 0, f1 |-> 0, n |-> 0]
  ELSE LET acc == MacroLoopPredictedOnly(SubSeq(keys, 1, Len(keys) - 1), ann, cp, ctp)
           label == keys[Len(keys)]
           current_precision == SmoothDiv(ctp[label], cp[label])
           current_recall == SmoothDiv(ctp[label], ann[label])
       IN IF cp[label] = 0 THEN acc
          ELSE [precision |-> acc.precision + current_precision,
                recall |-> acc.recall + current_recall,
                f1 |-> acc.f1 + F1(current_precision, current_recall),
                n |-> acc.n + 1]

\* The macro loop: the sums of the per-label terms and the label count n.
RECURSIVE MacroLoop(_, _, _, _)
MacroLoop(keys, ann, cp, ctp) ==
  IF keys = <<>> THEN [precision |-> 0, recall |-> 0, f1 |-> 0, n |-> 0]
  ELSE LET acc == MacroLoop(SubSeq(keys, 1, Len(keys) - 1), ann, cp, ctp)
           label == keys[Len(keys)]
           current_precision == SmoothDiv(ctp[label], cp[label])
           current_recall == SmoothDiv(ctp[label], ann[label])
       IN [precision |-> acc.precision + current_precision,
           recall |-> acc.recall + current_recall,
           f1 |-> acc.f1 + F1(current_precision, current_recall),
           n |-> acc.n + 1]

\* Mutant of Aggregate: the division by n is smoothed like the others, so
\* that no label gives macro metrics of 0.
AggregateSmoothed(keys, ann, cp, ctp) ==
  LET count_annotated == SumCounts(ann, keys)
      count_predicted == SumCounts(cp, keys)
      count_true_positives == SumCounts(ctp, keys)
      micro_precision == SmoothDiv(count_true_positives, count_predicted)
      micro_recall == SmoothDiv(count_true_positives, count_annotated)
      micro_f1 == F1(micro_precision, micro_recall)
      m == MacroLoop(keys, ann, cp, ctp)
  IN IF m.n = 0
     THEN [out |-> NoOutcome,
           value |-> <<0, 0, 0, micro_precision, micro_recall, micro_f1>>]
     ELSE [out |-> NoOutcome,
           value |-> <<m.precision \div m.n, m.recall \div m.n, m.f1 \div m.n,
                       micro_precision, micro_recall, micro_f1>>]

\* The tail of an evaluation routine: the six metrics, or the exception of
\* the division by n.
Aggregate(keys, ann, cp, ctp) ==
  LET count_annotated == SumCounts(ann, keys)
      count_predicted == SumCounts(cp, keys)
      count_true_positives == SumCounts(ctp, keys)
      micro_precision == SmoothDiv(count_true_positives, count_predicted)
      micro_recall == SmoothDiv(count_true_positives, count_annotated)
      micro_f1 == F1(micro_precision, micro_recall)
      m == MacroLoop(keys, ann, cp, ctp)
  IN IF m.n = 0
     THEN [out |-> Raise("ZeroDivisionError", "division by zero", "", ""), value |-> <<>>]
     ELSE [out |-> NoOutcome,
           value |-> <<m.precision \div m.n, m.recall \div m.n, m.f1 \div m.n,
                       micro_precision, micro_recall, micro_f1>>]

\* ---------------------------------------------------- ensemble voter
\* subtask_string(subtask): the list field of the subtask's relations.
subtask_string(st) ==
  CASE st = "6.2.1" -> "binary_tag_based_relations"
    [] st = "6.2.2" -> "ternary_tag_based_relations"
    [] st = "6.2.3" -> "ternary_mention_based_relations"
    [] OTHER -> "unknown"

EnsembleRelations ==
  { R("aspirin", "Drug", "treats", "BRCA1", "Gene"),
    R("ibuprofen", "Drug", "treats", "BRCA1", "Gene"),
    [subject_label |-> S("Drug"), predicate |-> S("treats"),
     object_label |-> S("Gene"), confidence |-> I(9)] }

\* The fields of a relation that the key of subtask st reads.
KeyFields(st) ==
  CASE st = "6.2.1" -> <<"subject_label", "object_label">>
    [] st = "6.2.2" -> <<"subject_label", "predicate", "object_label">>
    [] st = "6.2.3" -> <<"subject_text_span", "subject_label", "predicate",
                         "object_text_span", "object_label">>
    [] OTHER -> <<>>

\* key = (paper_id, relation[...], ...)
VoteKey(st, p, relation) ==
  <<p>> \o [i \in 1..Len(KeyFields(st)) |-> relation[KeyFields(st)[i]]]

\* relation_votes[key].append(relation) on a dict in insertion order, held as
\* a sequence of [key, votes].
AppendVote(rv, key, relation) ==
  IF \E i \in 1..Len(rv) : rv[i].key = key
  THEN [i \in 1..Len(rv) |->
          IF rv[i].key = key THEN [rv[i] EXCEPT !.votes = Append(@, relation)] ELSE rv[i]]
  ELSE Append(rv, [key |-> key, votes |-> <<relation>>])

\* One iteration of the innermost loop: the key of the relation, then the vote.
CastVote(st, rv, p, relation) ==
  IF st \notin {"6.2.1", "6.2.2", "6.2.3"}
  THEN [out |-> Raise("ValueError", "Unsupported subtask", p, st), rv |-> rv]
  ELSE IF \E i \in 1..Len(KeyFields(st)) : KeyFields(st)[i] \notin DOMAIN relation
  THEN [out |-> Raise("KeyError", "missing relation field", p, ""), rv |-> rv]
  ELSE [out |-> NoOutcome, rv |-> AppendVote(rv, VoteKey(st, p, relation), relation)]

\* math.ceil(n / 2)
CeilHalf(n) == (n + 1) \div 2

\* Mutant of Representative: the last vote, not the first.
RepresentativeLast(votes) == votes[Len(votes)]

\* votes[0]
Representative(votes) == votes[1]

\* ensemble_results[p][subtask_name].append(relation) on a defaultdict in
\* insertion order, held as a sequence of [paper_id, relations].
AppendResult(er, p, relation) ==
  IF \E i \in 1..Len(er) : er[i].paper_id = p
  THEN [i \in 1..Len(er) |->
          IF er[i].paper_id = p THEN [er[i] EXCEPT !.relations = Append(@, relation)]
          ELSE er[i]]
  ELSE Append(er, [paper_id |-> p, relations |-> <<relation>>])

\* Mutant of Consensus: the entry of a key's paper is looked up before the
\* vote count is tested, so the defaultdict creates it, empty, for a key
\* that fails the test.
RECURSIVE ConsensusTouching(_, _)
ConsensusTouching(rv, n) ==
  IF rv = <<>> THEN <<>>
  ELSE LET init == ConsensusTouching(SubSeq(rv, 1, Len(rv) - 1), n)
           last == rv[Len(rv)]
       IN IF Len(last.votes) >= CeilHalf(n)
          THEN AppendResult(init, last.key[1], Representative(last.votes))
          ELSE IF \E i \in 1..Len(init) : init[i].paper_id = last.key[1]
          THEN init
          ELSE Append(init, [paper_id |-> last.key[1], relations |-> <<>>])

\* The second loop: every key with enough votes gives its representative to
\* the list of its paper.
RECURSIVE Consensus(_, _)
Consensus(rv, n) ==
  IF rv = <<>> THEN <<>>
  ELSE LET init == Consensus(SubSeq(rv, 1, Len(rv) - 1), n)
           last == rv[Len(rv)]
       IN IF Len(last.votes) >= CeilHalf(n)
          THEN AppendResult(init, last.key[1], Representative(last.votes))
          ELSE init

\* ------------------------------------------------------------- state
VARIABLES
  config,                 \* compute_metrics' config: model_type, subtask
  pc,                     \* where the run is
  ground_truth,           \* the loaded dev.json
  index,                  \* ground_truth_NER / ground_truth_*_RE
  labels,                 \* list(count_annotated_*_per_label.keys())
  count_annotated,        \* count_annotated_*_per_label
  count_predicted,        \* count_predicted_*_per_label
  count_true_positives,   \* count_true_positives_per_label
  seen,                   \* the keys of predictions iterated so far
  pmid,                   \* the outer loop variable
  n_items,                \* the predicted items iterated so far, over all documents
  item,                   \* the inner loop variable (`entity` / `relation`)
  metrics,                \* the tuple the evaluation routine returns
  outcome,                \* how compute_metrics ended
  subtask,                \* EnsembleREInference.subtask
  n_predictions,          \* len(self.predictions)
  save_path,              \* whether a save_path was given
  epc,                    \* where perform_relation_level_inference is
  model,                  \* the index of model_predictions, 0 before the first
  papers,                 \* the keys of model_predictions iterated so far
  paper_id,               \* the loop variable of the document loop
  scan,                   \* every relation iterated so far, as [model, paper_id, relation]
  relation_votes,         \* relation_votes, in insertion order
  ensemble_results,       \* ensemble_results, in insertion order
  result,                 \* how perform_relation_level_inference ended
  predictions,            \* a whole predictions dict, in insertion order: [pmid, items]
  todo                    \* the positions of the current document's list not yet iterated

eval_vars == <<config, pc, ground_truth, index, labels, count_annotated, count_predicted,
               count_true_positives, seen, pmid, n_items, item, metrics, outcome>>

ensemble_vars == <<subtask, n_predictions, save_path, epc, model, papers, paper_id, scan,
                   relation_votes, ensemble_results, result>>

order_vars == <<predictions, todo>>

vars == <<eval_vars, ensemble_vars, order_vars>>

\* No whole predictions dict is held: the items arrive one at a time.
OrderIdle ==
  /\ predictions = <<>>
  /\ todo = {}

\* The part of the state a run of the other program leaves alone.
EnsembleIdle ==
  /\ subtask = "none"
  /\ n_predictions = 0
  /\ save_path = FALSE
  /\ epc = "idle"
  /\ model = 0
  /\ papers = {}
  /\ paper_id = "none"
  /\ scan = <<>>
  /\ relation_votes = <<>>
  /\ ensemble_results = <<>>
  /\ result = NoOutcome

task == TaskOf(config)

Configs ==
  [model_type : {"re"}, subtask : {"6.2.1", "6.2.2", "6.2.3", "6.2.4"}]
  \cup {[model_type |-> "ner", subtask |-> "6.2.1"]}

\* The ground truths of a task: documents D1 and, optionally, D2.
GroundTruths(t) ==
  LET lists == SeqUpTo(GoldItems(t), MaxGold)
  IN { <<[pmid |-> "D1", items |-> a]>> : a \in lists }
     \cup { <<[pmid |-> "D1", items |-> a], [pmid |-> "D2", items |-> b]>> :
            a \in lists, b \in lists }

Init ==
  /\ config \in Configs
  /\ pc = "start"
  /\ ground_truth = <<>>
  /\ index = <<>>
  /\ labels = <<>>
  /\ count_annotated = <<>>
  /\ count_predicted = <<>>
  /\ count_true_positives = <<>>
  /\ seen = {}
  /\ pmid = "none"
  /\ n_items = 0
  /\ item = <<>>
  /\ metrics = <<>>
  /\ outcome = NoOutcome
  /\ EnsembleIdle
  /\ OrderIdle

\* compute_metrics up to the call of the evaluation routine: the inference
\* has produced the predictions; an unrecognised subtask ends the call.
compute_metrics_dispatch ==
  /\ pc = "start"
  /\ IF task = "none"
     THEN /\ pc' = "done"
          /\ outcome' = [kind |-> "return", value |-> "ValueError(No matching subtask)"]
     ELSE /\ pc' = "evaluate"
          /\ outcome' = outcome
  /\ UNCHANGED <<config, ground_truth, index, labels, count_annotated, count_predicted,
                 count_true_positives, seen, pmid, n_items, item, metrics>>
  /\ UNCHANGED <<ensemble_vars, order_vars>>

\* The head of an evaluation routine: load the ground truth, index it, count
\* the annotated items per label and zero the two other counters.
Evaluation_begin ==
  /\ pc = "evaluate"
  /\ \E gt \in GroundTruths(task) :
       /\ ground_truth' = gt
       /\ index' = GroundTruthIndex(task, gt)
       /\ count_annotated' = CountAnnotated(task, gt)
       /\ labels' = KeysInOrder(GoldLabels(task, gt))
       /\ count_predicted' = ZeroCounts(CountAnnotated(task, gt))
       /\ count_true_positives' = ZeroCounts(CountAnnotated(task, gt))
  /\ pc' = "accumulate"
  /\ UNCHANGED <<config, seen, pmid, n_items, item, metrics, outcome>>
  /\ UNCHANGED <<ensemble_vars, order_vars>>

\* for pmid in predictions.keys(): the next document, and its list field.
NextDocument ==
  /\ pc = "accumulate"
  /\ \E p \in PMIDs \ seen, has_field \in BOOLEAN :
       /\ seen' = seen \cup {p}
       /\ pmid' = p
       /\ n_items' = n_items
       /\ item' = <<>>
       /\ IF has_field
          THEN UNCHANGED <<pc, outcome>>
          ELSE /\ pc' = "error"
               /\ outcome' = Raise("KeyError", "missing article field", p, FieldName(task))
  /\ UNCHANGED <<config, ground_truth, index, labels, count_annotated, count_predicted,
                 count_true_positives, metrics>>
  /\ UNCHANGED <<ensemble_vars, order_vars>>

\* for entity in entities / for relation in relations: one iteration.
NextItem ==
  /\ pc = "accumulate"
  /\ pmid # "none"
  /\ n_items < MaxItems
  /\ \E it \in PredItems(task) :
       LET r == ProcessItem(task, index, count_predicted, count_true_positives, pmid, it)
       IN /\ item' = <<it>>
          /\ n_items' = n_items + 1
          /\ count_predicted' = r.cp
          /\ count_true_positives' = r.ctp
          /\ outcome' = r.out
          /\ pc' = IF r.out.kind = "raise" THEN "error" ELSE pc
  /\ UNCHANGED <<config, ground_truth, index, labels, count_annotated, seen, pmid, metrics>>
  /\ UNCHANGED <<ensemble_vars, order_vars>>

\* After the last document: the sums, the micro and the macro metrics.
Evaluation_end ==
  /\ pc = "accumulate"
  /\ LET r == Aggregate(labels, count_annotated, count_predicted, count_true_positives)
     IN /\ metrics' = r.value
        /\ outcome' = r.out
        /\ pc' = IF r.out.kind = "raise" THEN "error" ELSE "evaluated"
  /\ UNCHANGED <<config, ground_truth, index, labels, count_annotated, count_predicted,
                 count_true_positives, seen, pmid, n_items, item>>
  /\ UNCHANGED <<ensemble_vars, order_vars>>

\* compute_metrics' return statement
compute_metrics_return ==
  /\ pc = "evaluated"
  /\ pc' = "done"
  /\ outcome' = [kind |-> "return",
                 value |-> [Precision_micro |-> metrics[4], Recall_micro |-> metrics[5],
                            F1_micro |-> metrics[6], Precision_macro |-> metrics[1],
                            Recall_macro |-> metrics[2], F1_macro |-> metrics[3]]]
  /\ UNCHANGED <<config, ground_truth, index, labels, count_annotated, count_predicted,
                 count_true_positives, seen, pmid, n_items, item, metrics>>
  /\ UNCHANGED <<ensemble_vars, order_vars>>

Next ==
  \/ compute_metrics_dispatch
  \/ Evaluation_begin
  \/ NextDocument
  \/ NextItem
  \/ Evaluation_end
  \/ compute_metrics_return

Spec == Init /\ [][Next]_vars

\* ------------------------------------------------ the ensemble voter
EvalIdle ==
  /\ config = [model_type |-> "none", subtask |-> "none"]
  /\ pc = "idle"
  /\ ground_truth = <<>>
  /\ index = <<>>
  /\ labels = <<>>
  /\ count_annotated = <<>>
  /\ count_predicted = <<>>
  /\ count_true_positives = <<>>
  /\ seen = {}
  /\ pmid = "none"
  /\ n_items = 0
  /\ item = <<>>
  /\ metrics = <<>>
  /\ outcome = NoOutcome

\* EnsembleREInference(...) constructed; perform_relation_level_inference has
\* set up its two empty dicts.
InitEnsemble ==
  /\ EvalIdle
  /\ OrderIdle
  /\ subtask \in {"6.2.1", "6.2.2", "6.2.3", "6.2.4"}
  /\ n_predictions \in 0..MaxModels
  /\ save_path \in BOOLEAN
  /\ epc = "vote"
  /\ model = 0
  /\ papers = {}
  /\ paper_id = "none"
  /\ scan = <<>>
  /\ relation_votes = <<>>
  /\ ensemble_results = <<>>
  /\ result = NoOutcome

\* for model_predictions in self.predictions
NextModel ==
  /\ epc = "vote"
  /\ model < n_predictions
  /\ model' = model + 1
  /\ papers' = {}
  /\ paper_id' = "none"
  /\ UNCHANGED <<subtask, n_predictions, save_path, epc, scan, relation_votes,
                 ensemble_results, result>>
  /\ UNCHANGED <<eval_vars, order_vars>>

\* for paper_id, content in model_predictions.items(), and content[subtask_name]
NextPaper ==
  /\ epc = "vote"
  /\ model >= 1
  /\ \E p \in PMIDs \ papers, has_field \in BOOLEAN :
       /\ papers' = papers \cup {p}
       /\ paper_id' = p
       /\ IF has_field
          THEN UNCHANGED <<epc, result>>
          ELSE /\ epc' = "error"
               /\ result' = Raise("KeyError", "missing article field", p,
                                  subtask_string(subtask))
  /\ UNCHANGED <<subtask, n_predictions, save_path, model, scan, relation_votes,
                 ensemble_results>>
  /\ UNCHANGED <<eval_vars, order_vars>>

\* for relation in content[subtask_name]: one iteration
NextRelation ==
  /\ epc = "vote"
  /\ paper_id # "none"
  /\ Len(scan) < MaxVotes
  /\ \E relation \in EnsembleRelations :
       LET r == CastVote(subtask, relation_votes, paper_id, relation)
       IN /\ scan' = Append(scan, [model |-> model, paper_id |-> paper_id,
                                   relation |-> relation])
          /\ relation_votes' = r.rv
          /\ result' = r.out
          /\ epc' = IF r.out.kind = "raise" THEN "error" ELSE epc
  /\ UNCHANGED <<subtask, n_predictions, save_path, model, papers, paper_id,
                 ensemble_results>>
  /\ UNCHANGED <<eval_vars, order_vars>>

\* After the last prediction set: the loop over relation_votes.
TallyVotes ==
  /\ epc = "vote"
  /\ model = n_predictions
  /\ ensemble_results' = Consensus(relation_votes, n_predictions)
  /\ epc' = "tallied"
  /\ UNCHANGED <<subtask, n_predictions, save_path, model, papers, paper_id, scan,
                 relation_votes, result>>
  /\ UNCHANGED <<eval_vars, order_vars>>

\* json.dump(dict(ensemble_results)) to save_path, or return dict(ensemble_results)
SaveOrReturn ==
  /\ epc = "tallied"
  /\ epc' = "done"
  /\ result' = IF save_path
               THEN [kind |-> "saved", value |-> ensemble_results]
               ELSE [kind |-> "return", value |-> ensemble_results]
  /\ UNCHANGED <<subtask, n_predictions, save_path, model, papers, paper_id, scan,
                 relation_votes, ensemble_results>>
  /\ UNCHANGED <<eval_vars, order_vars>>

NextEnsemble ==
  \/ NextModel
  \/ NextPaper
  \/ NextRelation
  \/ TallyVotes
  \/ SaveOrReturn

SpecEnsemble == InitEnsemble /\ [][NextEnsemble]_vars

\* ----------------------------- one predictions dict, iterated in any order
\* The predicted items of the runs over a whole predictions dict: a gold
\* item, an item with its label and another span, an item with an illegal label.
OrderItems(t) ==
  IF t = "NER"
  THEN { E(I(0), I(5), "title", "BRCA1", "Gene"),
         E(I(0), I(5), "title", "TP53", "Gene"),
         E(I(0), I(5), "title", "BRCA1", "XYZ") }
  ELSE { R("aspirin", "Drug", "treats", "BRCA1", "Gene"),
         R("ibuprofen", "Drug", "treats", "BRCA1", "Gene"),
         R("aspirin", "XYZ", "treats", "BRCA1", "Gene") }

\* The number of items of a predictions dict.
RECURSIVE CountItems(_)
CountItems(preds) ==
  IF preds = <<>> THEN 0 ELSE Len(Head(preds).items) + CountItems(Tail(preds))

\* The predictions dicts: documents with distinct ids in some insertion
\* order, each with its list, MaxItems items in all at most.
PredictionSets(t) ==
  { ps \in SeqUpTo([pmid : PMIDs, items : SeqUpTo(OrderItems(t), MaxItems)],
                   Cardinality(PMIDs)) :
      /\ \A i, j \in 1..Len(ps) : ps[i].pmid = ps[j].pmid => i = j
      /\ CountItems(ps) <= MaxItems }

\* The ground truths of these runs: D1 and, optionally, D2, each with no gold
\* item or one.
OrderGroundTruths(t) ==
  LET lists == {<<>>} \cup { <<g>> : g \in GoldItems(t) }
  IN { <<[pmid |-> "D1", items |-> a]>> : a \in lists }
     \cup { <<[pmid |-> "D1", items |-> a], [pmid |-> "D2", items |-> b]>> :
            a \in lists, b \in lists }

\* An evaluation routine called with a predictions dict, after its
\* ground-truth pass.
InitOrder ==
  /\ \E c \in { x \in Configs : TaskOf(x) # "none" } :
       /\ config = c
       /\ \E gt \in OrderGroundTruths(TaskOf(c)) :
            /\ ground_truth = gt
            /\ index = GroundTruthIndex(TaskOf(c), gt)
            /\ count_annotated = CountAnnotated(TaskOf(c), gt)
            /\ labels = KeysInOrder(GoldLabels(TaskOf(c), gt))
            /\ count_predicted = ZeroCounts(CountAnnotated(TaskOf(c), gt))
            /\ count_true_positives = ZeroCounts(CountAnnotated(TaskOf(c), gt))
       /\ predictions \in PredictionSets(TaskOf(c))
  /\ pc = "accumulate"
  /\ seen = {}
  /\ pmid = "none"
  /\ n_items = 0
  /\ item = <<>>
  /\ metrics = <<>>
  /\ outcome = NoOutcome
  /\ todo = {}
  /\ EnsembleIdle

\* The list of document p in the predictions dict.
ItemsOf(p) ==
  predictions[CHOOSE d \in 1..Len(predictions) : predictions[d].pmid = p].items

\* The outer loop takes a next document of the dict, whichever the dict's
\* order puts next, once the list of the current one is exhausted.
NextDocumentOfDict ==
  /\ pc = "accumulate"
  /\ todo = {}
  /\ \E d \in 1..Len(predictions) :
       /\ predictions[d].pmid \notin seen
       /\ seen' = seen \cup {predictions[d].pmid}
       /\ pmid' = predictions[d].pmid
       /\ todo' = 1..Len(predictions[d].items)
  /\ item' = <<>>
  /\ UNCHANGED <<config, pc, ground_truth, index, labels, count_annotated, count_predicted,
                 count_true_positives, n_items, metrics, outcome, predictions>>
  /\ UNCHANGED ensemble_vars

\* The inner loop takes a next item of the current document, whichever the
\* list's order puts next.
NextItemOfList ==
  /\ pc = "accumulate"
  /\ \E i \in todo :
       LET it == ItemsOf(pmid)[i]
           r == ProcessItem(task, index, count_predicted, count_true_positives, pmid, it)
       IN /\ item' = <<it>>
          /\ todo' = todo \ {i}
          /\ n_items' = n_items + 1
          /\ count_predicted' = r.cp
          /\ count_true_positives' = r.ctp
          /\ outcome' = r.out
          /\ pc' = IF r.out.kind = "raise" THEN "error" ELSE pc
  /\ UNCHANGED <<config, ground_truth, index, labels, count_annotated, seen, pmid, metrics,
                 predictions>>
  /\ UNCHANGED ensemble_vars

\* Every document of the dict and every item of its list has been iterated.
AllIterated ==
  /\ todo = {}
  /\ seen = { predictions[d].pmid : d \in 1..Len(predictions) }

\* The tail of the routine, after the last document of the dict.
EvaluationEndOfDict ==
  /\ AllIterated
  /\ Evaluation_end

NextOrder ==
  \/ NextDocumentOfDict
  \/ NextItemOfList
  \/ EvaluationEndOfDict

SpecOrder == InitOrder /\ [][NextOrder]_vars

\* ------------------------------------------------------------ claims
\* The counting keys observed in the ground truth, read off the loaded
\* documents directly.
GoldKeySet ==
  { CountingKey(task, ground_truth[i].items[j]) :
      <<i, j>> \in { <<a, b>> \in (1..Len(ground_truth)) \X (1..MaxGold + 1) :
                       b <= Len(ground_truth[a].items) } }

\* The accumulation pass has started (the counters exist).
Accumulating == pc \in {"accumulate", "evaluated", "error"} \/ (pc = "done" /\ task # "none")

\* This step is one iteration of the inner loop (NextItem), on item'[1].
ItemStep == pc = "accumulate" /\ n_items' = n_items + 1

\* The item has every field its routine reads.
WellFormed(it) == RequiredFields(task) \subseteq DOMAIN it

LegalEntityLabels == { load_entity_labels[i] : i \in 2..Len(load_entity_labels) }
LegalPredicates == { load_relation_labels[i] : i \in 2..Len(load_relation_labels) }

\* The label and predicate values of a well-formed item that are outside
\* the legal vocabulary.
IllegalValues(it) ==
  IF task = "NER" THEN {PyStr(it.label)} \ LegalEntityLabels
  ELSE ({PyStr(it.subject_label), PyStr(it.object_label)} \ LegalEntityLabels)
       \cup (IF task = "6.2.1" THEN {} ELSE {PyStr(it.predicate)} \ LegalPredicates)

\* The item passes the validator.
Admitted(it) == WellFormed(it) /\ IllegalValues(it) = {}

\* A counter's value for a key, 0 when the counter has no such key.
CountOf(counter, k) == IF k \in DOMAIN counter THEN counter[k] ELSE 0

\* C1: at every point of the accumulation pass, for every counting key, the
\* predicted count is at least the true-positive count.
C1_PredictedAtLeastTruePositive ==
  \A k \in DOMAIN count_true_positives :
    k \in DOMAIN count_predicted /\ count_predicted[k] >= count_true_positives[k]

\* C1 witness: mid-pass, a key with two predictions of which one is a true positive.
C1_Witness ==
  /\ pc = "accumulate"
  /\ \E k \in DOMAIN count_true_positives :
       count_true_positives[k] = 1 /\ count_predicted[k] = 2

\* C2 as stated: when the illegal-label error is raised, no predicted and no
\* true-positive counter has been incremented.
C2_Original ==
  (pc = "error" /\ outcome.type = "NameError") =>
    \A k \in DOMAIN count_predicted :
      count_predicted[k] = 0 /\ count_true_positives[k] = 0

\* C2 amended: the iteration that reaches a well-formed item carrying a value
\* outside the legal vocabulary raises the illegal-label error naming such a
\* value, counts nothing for that item (the counters keep the counts of the
\* items before it), returns no metrics, and the run makes no further step.
C2_IllegalItemAborts ==
  [][ /\ pc # "error"
      /\ (ItemStep /\ WellFormed(item'[1]) /\ IllegalValues(item'[1]) # {}) =>
           /\ pc' = "error"
           /\ outcome'.kind = "raise"
           /\ outcome'.type = "NameError"
           /\ outcome'.pmid = pmid
           /\ outcome'.value \in IllegalValues(item'[1])
           /\ count_predicted' = count_predicted
           /\ count_true_positives' = count_true_positives
           /\ metrics' = <<>>
    ]_vars

\* C2 witness: an illegal-label error raised after a legal item was counted.
C2_Witness ==
  /\ pc = "error"
  /\ outcome.type = "NameError"
  /\ outcome.value = "XYZ"
  /\ \E k \in DOMAIN count_predicted : count_predicted[k] = 1

C4_UnsupportedSubtaskRaises ==
  (config.model_type = "re" /\ config.subtask \notin {"6.2.1", "6.2.2", "6.2.3"}) =>
    outcome.kind # "return"

\* C7 as stated: in 6.2.1, a predicted legal pair that no gold relation has
\* raises the predicted count of that pair by one.
C7_Original ==
  [][ (ItemStep /\ task = "6.2.1" /\ Admitted(item'[1])
       /\ CountingKey(task, item'[1]) \notin GoldKeySet) =>
        CountOf(count_predicted', CountingKey(task, item'[1]))
          = CountOf(count_predicted, CountingKey(task, item'[1])) + 1
    ]_vars

\* C7 amended: in 6.2.1, a predicted legal pair that no gold relation has
\* changes no counter: the pair has no predicted count and no true-positive
\* count before or after, and it is not among the labels of the macro loop.
C7_UnseededPairNotCounted ==
  [][ (ItemStep /\ task = "6.2.1" /\ Admitted(item'[1])
       /\ CountingKey(task, item'[1]) \notin GoldKeySet) =>
        /\ count_predicted' = count_predicted
        /\ count_true_positives' = count_true_positives
        /\ CountingKey(task, item'[1]) \notin DOMAIN count_predicted'
        /\ CountingKey(task, item'[1]) \notin DOMAIN count_true_positives'
        /\ ~InList(CountingKey(task, item'[1]), labels')
    ]_vars

\* C7 witness: 6.2.1, an admitted relation whose pair is not a gold pair has
\* just been iterated, in a document of the ground truth, and the run goes on.
C7_Witness ==
  /\ task = "6.2.1"
  /\ pc = "accumulate"
  /\ item # <<>>
  /\ Admitted(item[1])
  /\ CountingKey(task, item[1]) \notin GoldKeySet
  /\ GoldKeySet # {}

\* C8: from the start of the accumulation pass on, the three counters have
\* the key set of the gold counting keys; a counter of a key changes only in
\* the iteration of a predicted item with that key.
C8_CountersKeepGoldKeys ==
  [][ /\ Accumulating' =>
           /\ DOMAIN count_annotated' = GoldKeySet'
           /\ DOMAIN count_predicted' = GoldKeySet'
           /\ DOMAIN count_true_positives' = GoldKeySet'
      /\ Accumulating =>
           \A k \in GoldKeySet :
             (count_predicted'[k] # count_predicted[k]
              \/ count_true_positives'[k] # count_true_positives[k]) =>
               (ItemStep /\ Admitted(item'[1]) /\ CountingKey(task, item'[1]) = k)
    ]_vars

\* C8 witness: at the end of a pass, a gold key that was never predicted
\* (both counts 0) beside a predicted item whose key is not a gold key.
C8_Witness ==
  /\ pc = "evaluated"
  /\ n_items = 1
  /\ Admitted(item[1])
  /\ CountingKey(task, item[1]) \notin GoldKeySet
  /\ \E k \in GoldKeySet : count_predicted[k] = 0 /\ count_true_positives[k] = 0

RECURSIVE SumOverSet(_, _)
SumOverSet(f, K) ==
  IF K = {} THEN 0
  ELSE LET k == CHOOSE x \in K : TRUE IN f[k] + SumOverSet(f, K \ {k})

\* The per-label precision, recall and F1 of a gold key, from the counters.
PrecisionTerm(k) ==
  IF count_predicted[k] = 0 THEN 0
  ELSE (count_true_positives[k] * Scale) \div count_predicted[k]

RecallTerm(k) == (count_true_positives[k] * Scale) \div count_annotated[k]

F1Term(k) ==
  IF PrecisionTerm(k) + RecallTerm(k) = 0 THEN 0
  ELSE 2 * ((PrecisionTerm(k) * RecallTerm(k)) \div (PrecisionTerm(k) + RecallTerm(k)))

\* C9: the macro precision, recall and F1 an evaluation routine returns are
\* the sums of one per-label term for every distinct gold counting key,
\* divided by the number n of those keys; a gold key that was never
\* predicted contributes terms of value 0 and counts in n.
C9_MacroOverGoldKeys ==
  (pc = "evaluated" \/ (pc = "done" /\ task # "none")) =>
    LET K == GoldKeySet
        n == Cardinality(K)
    IN /\ n >= 1
       /\ metrics[1] = SumOverSet([k \in K |-> PrecisionTerm(k)], K) \div n
       /\ metrics[2] = SumOverSet([k \in K |-> RecallTerm(k)], K) \div n
       /\ metrics[3] = SumOverSet([k \in K |-> F1Term(k)], K) \div n
       /\ \A k \in K : count_predicted[k] = 0 =>
            (PrecisionTerm(k) = 0 /\ RecallTerm(k) = 0 /\ F1Term(k) = 0)

\* C9 witness: metrics returned for two gold keys, one never predicted, one
\* with a true positive, after a predicted item whose key is not a gold key.
C9_Witness ==
  /\ pc = "evaluated"
  /\ Cardinality(GoldKeySet) = 2
  /\ \E k \in GoldKeySet : count_predicted[k] = 0
  /\ \E k \in GoldKeySet : count_true_positives[k] = 1
  /\ item # <<>>
  /\ Admitted(item[1])
  /\ CountingKey(task, item[1]) \notin GoldKeySet
  /\ metrics[1] = Scale \div 2

MentionFields ==
  {"subject_text_span", "subject_label", "predicate", "object_text_span", "object_label"}

\* Document p of the ground truth lists a relation equal to `it` on all five
\* mention fields.
GoldHasMention(p, it) ==
  \E i \in 1..Len(ground_truth) :
    /\ ground_truth[i].pmid = p
    /\ \E j \in 1..Len(ground_truth[i].items) :
         \A f \in MentionFields : PyStr(ground_truth[i].items[j][f]) = PyStr(it[f])

\* C10: in 6.2.3, the iteration of an admitted relation raises the
\* true-positive count of its label key by one if and only if the gold list
\* of the same document holds a relation equal to it on all five fields;
\* otherwise no true-positive count changes, and the predicted count of its
\* label key is raised whenever that key is a gold key.
C10_MentionMatchOnFiveFields ==
  [][ (ItemStep /\ task = "6.2.3" /\ Admitted(item'[1])) =>
        LET it == item'[1]
            k == CountingKey(task, it)
        IN /\ GoldHasMention(pmid, it) <=>
                (CountOf(count_true_positives', k) = CountOf(count_true_positives, k) + 1)
           /\ ~GoldHasMention(pmid, it) => count_true_positives' = count_true_positives
           /\ \A k2 \in DOMAIN count_true_positives \ {k} :
                count_true_positives'[k2] = count_true_positives[k2]
           /\ k \in GoldKeySet => count_predicted'[k] = count_predicted[k] + 1
    ]_vars

\* C10 witness: 6.2.3, the relation just iterated has the three labels of a
\* gold relation of its document but another text span, and of the two
\* relations iterated one was a true positive.
C10_Witness ==
  /\ task = "6.2.3"
  /\ pc = "accumulate"
  /\ item # <<>>
  /\ Admitted(item[1])
  /\ pmid \in GoldPmids(ground_truth)
  /\ InList(CountingKey(task, item[1]),
            [j \in 1..Len(index[pmid]) |->
               <<index[pmid][j][2], index[pmid][j][3], index[pmid][j][5]>>])
  /\ ~GoldHasMention(pmid, item[1])
  /\ count_predicted[CountingKey(task, item[1])] = 2
  /\ count_true_positives[CountingKey(task, item[1])] = 1

\* The key of the i-th relation iterated by the voter.
ScanKey(i) == VoteKey(subtask, scan[i].paper_id, scan[i].relation)

\* The voter has run its second loop.
Tallied == epc \in {"tallied", "done"}

\* The relations the consensus lists for paper p (none when p is no key of it).
OutList(p) ==
  IF \E e \in 1..Len(ensemble_results) : ensemble_results[e].paper_id = p
  THEN ensemble_results[CHOOSE e \in 1..Len(ensemble_results) :
                          ensemble_results[e].paper_id = p].relations
  ELSE <<>>

\* The prediction sets that propose the key of the i-th iterated relation.
Proposers(i) == { scan[j].model : j \in { x \in 1..Len(scan) : ScanKey(x) = ScanKey(i) } }

\* C5: a relation key is in the consensus output if and only if the number
\* of distinct prediction sets that propose it is at least ceil(N/2).
C5_MajorityOfModels ==
  Tallied =>
    \A i \in 1..Len(scan) :
      (\E n \in 1..Len(OutList(scan[i].paper_id)) :
         VoteKey(subtask, scan[i].paper_id, OutList(scan[i].paper_id)[n]) = ScanKey(i))
      <=> (Cardinality(Proposers(i)) >= CeilHalf(n_predictions))

\* The positions in the scan at which a key occurs first, for the keys that
\* reach the vote threshold, of paper p.
SurvivorsOf(p) ==
  { i \in 1..Len(scan) :
      /\ scan[i].paper_id = p
      /\ \A j \in 1..(i - 1) : ScanKey(j) # ScanKey(i)
      /\ Cardinality({ j \in 1..Len(scan) : ScanKey(j) = ScanKey(i) })
           >= CeilHalf(n_predictions) }

\* C6: every surviving key gives exactly one relation to the list of its own
\* paper, the first relation iterated with that key, and each list is in the
\* order in which its keys were first iterated.
C6_FirstSeenRepresentative ==
  Tallied =>
    \A p \in PMIDs :
      /\ Len(OutList(p)) = Cardinality(SurvivorsOf(p))
      /\ \A i \in SurvivorsOf(p) :
           OutList(p)[Cardinality({ j \in SurvivorsOf(p) : j <= i })] = scan[i].relation

\* C6 witness: a surviving key whose two votes are different relation
\* objects, returned in the consensus.
C6_Witness ==
  /\ epc = "done"
  /\ result.kind = "return"
  /\ \E e \in 1..Len(relation_votes) :
       /\ Len(relation_votes[e].votes) = 2
       /\ relation_votes[e].votes[1] # relation_votes[e].votes[2]
       /\ CeilHalf(n_predictions) = 2
       /\ OutList(relation_votes[e].key[1]) = <<relation_votes[e].votes[1]>>

\* The reserved entries: the first entry of a loaded vocabulary, when no later
\* entry repeats it.
ReservedEntityLabels == {load_entity_labels[1]} \ LegalEntityLabels
ReservedPredicates == {load_relation_labels[1]} \ LegalPredicates

\* The reserved values a well-formed item carries in the fields its routine
\* validates (6.2.1 does not read the predicate).
ReservedValues(it) ==
  IF task = "NER" THEN {PyStr(it.label)} \cap ReservedEntityLabels
  ELSE ({PyStr(it.subject_label), PyStr(it.object_label)} \cap ReservedEntityLabels)
       \cup (IF task = "6.2.1" THEN {} ELSE {PyStr(it.predicate)} \cap ReservedPredicates)

\* The counting key holds a reserved value in a validated position.
KeyHasReserved(k) ==
  IF task = "NER" THEN k[1] \in ReservedEntityLabels
  ELSE IF task = "6.2.1" THEN k[1] \in ReservedEntityLabels \/ k[2] \in ReservedEntityLabels
  ELSE \/ k[1] \in ReservedEntityLabels
       \/ k[3] \in ReservedEntityLabels
       \/ k[2] \in ReservedPredicates

\* C11: in each of the four routines, the iteration of a well-formed item
\* that carries the reserved first vocabulary entry as a label (or, in 6.2.2
\* and 6.2.3, as the predicate) raises the illegal-label error, as for a
\* value outside the vocabulary, and changes no counter; a counting key that
\* holds a reserved value, seeded by the ground truth, keeps predicted and
\* true-positive count 0 throughout.
C11_ReservedLabelRejected ==
  [][ /\ (ItemStep /\ WellFormed(item'[1]) /\ ReservedValues(item'[1]) # {}) =>
           /\ pc' = "error"
           /\ outcome'.kind = "raise"
           /\ outcome'.type = "NameError"
           /\ outcome'.what \in {"Illegal label", "Illegal subject entity label",
                                 "Illegal object entity label", "Illegal predicate"}
           /\ outcome'.value \in IllegalValues(item'[1])
           /\ count_predicted' = count_predicted
           /\ count_true_positives' = count_true_positives
      /\ Accumulating' =>
           \A k \in DOMAIN count_predicted' :
             KeyHasReserved(k) =>
               (count_predicted'[k] = 0 /\ CountOf(count_true_positives', k) = 0)
    ]_vars

\* C11 witness: the illegal-label error naming the reserved entity label,
\* raised by a predicted item that the gold list of its document holds.
C11_Witness ==
  /\ pc = "error"
  /\ outcome.type = "NameError"
  /\ outcome.value \in ReservedEntityLabels
  /\ WellFormed(item[1])
  /\ pmid \in DOMAIN index
  /\ InList(MatchTuple(task, item[1]), index[pmid])
  /\ \E k \in DOMAIN count_predicted : KeyHasReserved(k)

\* C12: a run of the voter with a subtask other than 6.2.1, 6.2.2, 6.2.3
\* records no vote and neither saves nor returns a consensus, whatever the
\* prediction sets hold (also when they hold no relation at all).
C12_UnsupportedSubtaskAborts ==
  (epc # "idle" /\ subtask \notin {"6.2.1", "6.2.2", "6.2.3"}) =>
    /\ relation_votes = <<>>
    /\ epc \notin {"tallied", "done"}
    /\ result.kind \notin {"saved", "return"}

\* The counters and the outcome of the two loops over the predictions dict
\* in its insertion order, every list in its own order.
InListedOrder ==
  AccumulateDocuments(task, index,
                      [out |-> NoOutcome, cp |-> ZeroCounts(count_annotated),
                       ctp |-> ZeroCounts(count_annotated)],
                      predictions)

\* C13: a run that iterates the documents of a predictions dict, and the
\* items of each list, in any order and completes without error ends with the
\* counters and the six metrics of the run in the listed order, which
\* completes without error too; a run that fails in the accumulation pass in
\* some order fails in the listed order.
C13_OrderIndependent ==
  /\ pc = "evaluated" =>
       /\ InListedOrder.out = NoOutcome
       /\ count_predicted = InListedOrder.cp
       /\ count_true_positives = InListedOrder.ctp
       /\ count_annotated = CountAnnotated(task, ground_truth)
       /\ metrics = Aggregate(labels, count_annotated, InListedOrder.cp,
                              InListedOrder.ctp).value
  /\ (pc = "error" /\ outcome.type # "ZeroDivisionError") =>
       InListedOrder.out.kind = "raise"

\* C13 witness: a completed run that took the second listed document first
\* and then the two different items of the first listed document in reverse,
\* one of them a true positive.
C13_Witness ==
  /\ pc = "evaluated"
  /\ Len(predictions) = 2
  /\ pmid = predictions[1].pmid
  /\ Len(predictions[1].items) = 2
  /\ predictions[1].items[1] # predictions[1].items[2]
  /\ item = <<predictions[1].items[1]>>
  /\ \E k \in DOMAIN count_predicted :
       count_predicted[k] = 2 /\ count_true_positives[k] = 1

\* C14: in each of the four routines, the iteration of an admitted item
\* whose match tuple is in the gold list of its document raises the
\* predicted and the true-positive count of its label by one and raises no
\* exception, however many copies of the item were iterated before and
\* however many gold items the label has; the gold list is left as it was.
C14_MatchDoesNotConsume ==
  [][ (ItemStep /\ Admitted(item'[1]) /\ pmid \in DOMAIN index
       /\ InList(MatchTuple(task, item'[1]), index[pmid])) =>
        LET k == CountingKey(task, item'[1])
        IN /\ k \in DOMAIN count_predicted /\ k \in DOMAIN count_true_positives
           /\ count_predicted'[k] = count_predicted[k] + 1
           /\ count_true_positives'[k] = count_true_positives[k] + 1
           /\ pc' = "accumulate"
           /\ index' = index
           /\ count_annotated' = count_annotated
    ]_vars

\* C14 witness: two predicted items of one document matched the single gold
\* item of their label: two true positives against an annotated count of one.
C14_Witness ==
  /\ pc = "accumulate"
  /\ Cardinality(seen) = 1
  /\ n_items = 2
  /\ \E k \in DOMAIN count_true_positives :
       /\ count_annotated[k] = 1
       /\ count_predicted[k] = 2
       /\ count_true_positives[k] = 2
       /\ count_true_positives[k] > count_annotated[k]

\* This step is the tail of an evaluation routine (Evaluation_end): it leaves
\* the accumulation pass without iterating a document or an item.
AggregationStep == pc = "accumulate" /\ pc' # pc /\ seen' = seen /\ n_items' = n_items

\* C15: when the ground truth holds no item of the task (no counting key is
\* seeded, n = 0), none of the four routines ever returns metrics, and the
\* tail of the routine raises the division-by-zero error of the macro
\* averaging, also when no predicted document or item was iterated.
C15_NoGoldDividesByZero ==
  [][ (Accumulating /\ GoldKeySet = {}) =>
        /\ labels = <<>>
        /\ pc' \notin {"evaluated", "done"}
        /\ metrics' = <<>>
        /\ outcome'.kind # "return"
        /\ AggregationStep =>
             /\ pc' = "error"
             /\ outcome' = Raise("ZeroDivisionError", "division by zero", "", "")
    ]_vars

\* C15 witness: the division-by-zero error of a run with a ground truth of
\* two documents without items and empty predictions.
C15_Witness ==
  /\ pc = "error"
  /\ outcome.type = "ZeroDivisionError"
  /\ Len(ground_truth) = 2
  /\ GoldKeySet = {}
  /\ seen = {}
  /\ n_items = 0

\* The document ids that are keys of the consensus mapping.
OutputPapers == { ensemble_results[e].paper_id : e \in 1..Len(ensemble_results) }

\* The document ids of the relations iterated in the prediction sets.
VotedPapers == { scan[i].paper_id : i \in 1..Len(scan) }

\* C16: after the second loop, a document id is a key of the consensus
\* mapping if and only if one of its relation keys has at least ceil(N/2)
\* votes; every key of the mapping is a document id of the prediction sets,
\* occurs once and has a non-empty relation list; the mapping saved or
\* returned is this mapping.
C16_OnlyPapersWithSurvivors ==
  Tallied =>
    /\ OutputPapers = { p \in PMIDs : SurvivorsOf(p) # {} }
    /\ OutputPapers \subseteq VotedPapers
    /\ \A e \in 1..Len(ensemble_results) :
         /\ ensemble_results[e].relations # <<>>
         /\ \A f \in 1..Len(ensemble_results) :
              ensemble_results[f].paper_id = ensemble_results[e].paper_id => f = e
    /\ epc = "done" => result.value = ensemble_results

\* C16 witness: a returned consensus without the document whose two relation
\* keys got one vote each of the two needed.
C16_Witness ==
  /\ epc = "done"
  /\ result.kind = "return"
  /\ CeilHalf(n_predictions) = 2
  /\ Len(relation_votes) = 2
  /\ \E p \in VotedPapers : p \notin OutputPapers
  /\ result.value = <<>>

====
